---- MODULE Spec2Model ----
(***************************************************************************)
(* laser_message: a message is Huffman-coded (src/src/huffman_code.rs),    *)
(* sent as timed light pulses by a Laser and read back by a Receiver       *)
(* (src/src/lasers.rs).                                                    *)
(*                                                                         *)
(* Conventions of the model                                                *)
(*   Option<T>        a sequence of length at most one: None, Some(x)      *)
(*   String           a sequence of one-character strings                  *)
(*   Vec<u32> of bits a sequence over {0, 1}                               *)
(*   u32              a pair <<hi, lo>> of 16-bit limbs where the value    *)
(*                    can pass 2^31 (the received check word)              *)
(*   f32              NaN, or a count of units of 2^-24 (every value the   *)
(*                    error ratio 1 - min/max can take is such a count)    *)
(*   a panic          the status "panic" of a result                       *)
(***************************************************************************)
EXTENDS Integers, Sequences, FiniteSets, TLC

VARIABLES
    message,          \* the String handed to HuffTree::encode
    pc,               \* where the HuffTree's caller stands
    root,             \* HuffTree.root : Link
    padding,          \* HuffTree.padding : usize
    node_heap,        \* build_tree's BinaryHeap, as the set of its nodes
    char_code_map,    \* encode's HashMap<char, String>
    stream,           \* the Vec<u32> encode returned
    received,         \* the &[u32] handed to HuffTree::decode
    result,           \* what decode returned
    traversed,        \* whether the last decode called decode_string
    encoded_message,  \* Laser.encoded_message
    lpc,              \* where send_message stands
    bit_index,        \* send_message's position in encoded_message
    wire,             \* edge events produced and not yet read
    rpc,              \* where Receiver::print_message stands
    consumed,         \* the events the Receiver has read, oldest first
    data              \* receive_message's return value, as an Option

vars == <<message, pc, root, padding, node_heap, char_code_map, stream,
          received, result, traversed, encoded_message, lpc, bit_index,
          wire, rpc, consumed, data>>

huffVars == <<message, pc, root, padding, node_heap, char_code_map, stream,
              received, result, traversed>>

linkVars == <<encoded_message, lpc, bit_index, wire, rpc, consumed, data>>

(***************************************************************************)
(* Bounds of the model.                                                    *)
(***************************************************************************)
\* Longest message of SpecEncode.
MaxLen == 7

\* Longest message of Spec, where the encoded stream is also damaged.
MaxNoisyLen == 3

\* Most bits a damaged stream gains at its end.
MaxExtra == 1

\* Longest bit sequence handed to decode that is unrelated to the stream.
MaxShort == 3

\* Most events the Receiver reads in SpecLink.
MaxEvents == 4

\* Most events waiting to be read in SpecLink.
MaxWire == 1

\* Length of the Laser's encoded_message in SpecLink.
FrameBits == 2

\* The alphabet the messages are drawn from.
Symbols == {"a", "b", "c"}

Messages(n) == UNION {[1..k -> Symbols] : k \in 0..n}

BitSeqs(n) == UNION {[1..k -> {0, 1}] : k \in 0..n}

(***************************************************************************)
(* Option and small helpers.                                               *)
(***************************************************************************)
None == <<>>

Some(x) == <<x>>

Unwrap(o) == o[1]

Pow2(n) == 2 ^ n

Zeros(n) == [i \in 1..n |-> 0]

(***************************************************************************)
(* huffman_code.rs: Node, HuffTree::new, create_frequency_map.             *)
(***************************************************************************)
Node(freq, char, left, right) ==
    [freq |-> freq, char |-> char, left |-> left, right |-> right]

create_frequency_map(msg) ==
    [c \in {msg[i] : i \in DOMAIN msg} |->
        Cardinality({i \in DOMAIN msg : msg[i] = c})]

\* The nodes a pop of the min-heap may return: those of least freq (Ord for
\* Node reverses the comparison of freq; equal freq compare Equal, so which
\* of them comes first depends on the HashMap's iteration order).
HeapTop(heap) == {n \in heap : \A m \in heap : n.freq <= m.freq}

(***************************************************************************)
(* assign_codes: the code map after walking `tree` with path `string`.     *)
(***************************************************************************)
Insert(map, k, v) ==
    [x \in (DOMAIN map) \cup {k} |-> IF x = k THEN v ELSE map[x]]

\* assign_codes with the right edge labelled like the left one.
RECURSIVE assign_codes_one_label(_, _, _)
assign_codes_one_label(tree, code_map, string) ==
    IF tree.char # None
    THEN Insert(code_map, Unwrap(tree.char), string)
    ELSE LET afterLeft ==
                 IF tree.left # None
                 THEN assign_codes_one_label(Unwrap(tree.left), code_map,
                                             Append(string, "0"))
                 ELSE code_map
         IN  IF tree.right # None
             THEN assign_codes_one_label(Unwrap(tree.right), afterLeft,
                                         Append(string, "0"))
             ELSE afterLeft

RECURSIVE assign_codes(_, _, _)
assign_codes(tree, code_map, string) ==
    IF tree.char # None
    THEN Insert(code_map, Unwrap(tree.char), string)
    ELSE LET afterLeft ==
                 IF tree.left # None
                 THEN assign_codes(Unwrap(tree.left), code_map,
                                   Append(string, "0"))
                 ELSE code_map
         IN  IF tree.right # None
             THEN assign_codes(Unwrap(tree.right), afterLeft,
                               Append(string, "1"))
             ELSE afterLeft

(***************************************************************************)
(* encode_string.                                                          *)
(***************************************************************************)
\* char::to_digit(10) on the characters a code holds.
to_digit(ch) == IF ch = "0" THEN 0 ELSE 1

\* The inner loop: one code's bits pushed, the checksum and byte_index kept.
RECURSIVE push_code(_, _)
push_code(acc, code) ==
    IF code = <<>> THEN acc
    ELSE LET bit == to_digit(Head(code))
         IN  push_code(
                 [encoded_message |-> Append(acc.encoded_message, bit),
                  checksum |-> acc.checksum + bit * Pow2(acc.byte_index),
                  byte_index |-> IF acc.byte_index = 7 THEN 0
                                 ELSE acc.byte_index + 1],
                 Tail(code))

\* The outer loop over message.chars().
RECURSIVE push_chars(_, _, _)
push_chars(acc, msg, code_map) ==
    IF msg = <<>> THEN acc
    ELSE push_chars(push_code(acc, code_map[Head(msg)]), Tail(msg), code_map)

\* padding_for that adds nothing to a length already a multiple of 8.
padding_for_aligned(len) == (8 - (len % 8)) % 8

\* self.padding = 8 - (encoded_message.len() % 8)
padding_for(len) == 8 - (len % 8)

\* check_vec for a checksum twice as wide.
RECURSIVE check_vec_wide(_, _)
check_vec_wide(checksum, n) ==
    IF n = 0 THEN <<>>
    ELSE <<checksum % 2, 0>> \o check_vec_wide(checksum \div 2, n - 1)

\* (0..32).map(|n| (checksum >> n) & 1)
RECURSIVE check_vec(_, _)
check_vec(checksum, n) ==
    IF n = 0 THEN <<>>
    ELSE <<checksum % 2>> \o check_vec(checksum \div 2, n - 1)

encode_string(msg, code_map) ==
    LET acc == push_chars([encoded_message |-> <<>>, checksum |-> 0,
                           byte_index |-> 0], msg, code_map)
        pad == padding_for(Len(acc.encoded_message))
    IN  [padding |-> pad,
         encoded |-> acc.encoded_message \o Zeros(pad)
                         \o check_vec(acc.checksum, 32)]

(***************************************************************************)
(* HuffTree::encode, one step per iteration of build_tree's loop.          *)
(***************************************************************************)
\* create_frequency_map, then build_tree's heap of one leaf per character.
EncodeBegin ==
    /\ pc = "new"
    /\ LET frequency_map == create_frequency_map(message)
       IN  node_heap' = {Node(frequency_map[c], Some(c), None, None) :
                             c \in DOMAIN frequency_map}
    /\ pc' = "build"
    /\ UNCHANGED <<message, root, padding, char_code_map, stream, received,
                   result, traversed>>
    /\ UNCHANGED linkVars

\* while node_heap.len() > 1: pop two, push their parent.
BuildMerge ==
    /\ pc = "build"
    /\ Cardinality(node_heap) > 1
    /\ \E node1 \in HeapTop(node_heap) :
         \E node2 \in HeapTop(node_heap \ {node1}) :
            node_heap' = (node_heap \ {node1, node2}) \cup
                {Node(node1.freq + node2.freq, None, Some(node1), Some(node2))}
    /\ UNCHANGED <<message, pc, root, padding, char_code_map, stream,
                   received, result, traversed>>
    /\ UNCHANGED linkVars

\* The heap's last node is the root; assign_codes and encode_string follow.
BuildDone ==
    /\ pc = "build"
    /\ Cardinality(node_heap) = 1
    /\ \E top \in node_heap :
         LET codes == assign_codes(top, <<>>, <<>>)
             enc == encode_string(message, codes)
         IN  /\ root' = Some(top)
             /\ char_code_map' = codes
             /\ padding' = enc.padding
             /\ stream' = enc.encoded
    /\ node_heap' = {}
    /\ pc' = "encoded"
    /\ UNCHANGED <<message, received, result, traversed>>
    /\ UNCHANGED linkVars

\* node_heap.pop().expect("Tree has root.") on the heap of an empty message.
BuildPanic ==
    /\ pc = "build"
    /\ node_heap = {}
    /\ pc' = "panicked"
    /\ UNCHANGED <<message, root, padding, node_heap, char_code_map, stream,
                   received, result, traversed>>
    /\ UNCHANGED linkVars

(***************************************************************************)
(* u32 and f32 arithmetic of validate.                                     *)
(***************************************************************************)
Limb == 2 ^ 16

\* A u32 below 2^31 as limbs.
W(n) == <<n \div Limb, n % Limb>>

WLt(x, y) == x[1] < y[1] \/ (x[1] = y[1] /\ x[2] < y[2])

WAdd(x, y) ==
    LET lo == x[2] + y[2] IN <<x[1] + y[1] + (lo \div Limb), lo % Limb>>

\* x - y for x >= y.
WSub(x, y) ==
    IF x[2] >= y[2] THEN <<x[1] - y[1], x[2] - y[2]>>
    ELSE <<x[1] - y[1] - 1, x[2] + Limb - y[2]>>

WDbl(x) == WAdd(x, x)

WMin(x, y) == IF WLt(y, x) THEN y ELSE x

WMax(x, y) == IF WLt(x, y) THEN y ELSE x

RECURSIVE BitLen(_)
BitLen(n) == IF n = 0 THEN 0 ELSE 1 + BitLen(n \div 2)

WBitLen(x) == IF x[1] > 0 THEN 16 + BitLen(x[1]) ELSE BitLen(x[2])

\* `as f32` of a u32: exact up to 24 significant bits, else rounded to 24
\* bits, ties to even. The result is the integer the f32 holds.
as_f32(x) ==
    IF WBitLen(x) <= 24 THEN x
    ELSE LET unit == Pow2(WBitLen(x) - 24)
             rem == x[2] % unit
             down == <<x[1], x[2] - rem>>
             odd == (x[2] \div unit) % 2 = 1
         IN  IF 2 * rem > unit \/ (2 * rem = unit /\ odd)
             THEN WAdd(down, <<0, unit>>)
             ELSE down

\* The least u >= 1 with 2^u * a >= d, given r = 2^u * a so far.
RECURSIVE f32_scale(_, _, _)
f32_scale(r, d, u) ==
    IF ~WLt(r, d) THEN [r |-> r, u |-> u]
    ELSE f32_scale(WDbl(r), d, u + 1)

\* Long division: n more bits of the quotient after m, then the rounding of
\* the 24-bit significand to nearest, ties to even.
RECURSIVE f32_mantissa(_, _, _, _)
f32_mantissa(m, rem, d, n) ==
    LET r2 == WDbl(rem)
    IN  IF n = 0
        THEN IF WLt(d, r2) \/ (r2 = d /\ m % 2 = 1) THEN m + 1 ELSE m
        ELSE IF ~WLt(r2, d)
             THEN f32_mantissa(2 * m + 1, WSub(r2, d), d, n - 1)
             ELSE f32_mantissa(2 * m, r2, d, n - 1)

\* m / 2^s rounded to nearest, ties to even (m <= 2^24).
round_shift(m, s) ==
    IF s = 0 THEN m
    ELSE IF s >= 25 THEN 0
    ELSE LET unit == Pow2(s)
             fl == m \div unit
             rem == m % unit
         IN  IF 2 * rem > unit \/ (2 * rem = unit /\ fl % 2 = 1)
             THEN fl + 1 ELSE fl

NaN == [nan |-> TRUE, units |-> 0]

F32(units) == [nan |-> FALSE, units |-> units]

\* 1.0 - (min / max) in f32, for the f32 values min <= max: the quotient is
\* rounded to 24 significant bits, the difference to a multiple of 2^-24.
error_of(min, max) ==
    IF max = <<0, 0>> THEN NaN
    ELSE IF min = max THEN F32(0)
    ELSE IF min = <<0, 0>> THEN F32(Pow2(24))
    ELSE LET sc == f32_scale(WDbl(min), max, 1)
             m == f32_mantissa(1, WSub(sc.r, max), max, 23)
         IN  F32(Pow2(24) - round_shift(m, sc.u - 1))

\* The significand of the f32 literal 0.005, which is 10737418 * 2^-31.
Tolerance == 10737418

\* error < 0.005: false for NaN; units * 2^-24 < Tolerance * 2^-31 otherwise.
below_tolerance(error) ==
    /\ ~error.nan
    /\ error.units < Pow2(17)
    /\ error.units * Pow2(7) < Tolerance

(***************************************************************************)
(* validate.                                                               *)
(***************************************************************************)
\* The 0-based indices i of (0..data_len - 32).step_by(8).
Windows(data_len) == {i \in 0..(data_len - 33) : i % 8 = 0}

\* (0..8).fold(0, |bit, j| bit + (data[i + j] << j)), from j on.
RECURSIVE byte_sum(_, _, _)
byte_sum(bits, i, j) ==
    IF j = 8 THEN 0
    ELSE bits[i + j + 1] * Pow2(j) + byte_sum(bits, i, j + 1)

\* The outer fold, from window i on.
RECURSIVE payload_sum(_, _)
payload_sum(bits, i) ==
    IF i \notin Windows(Len(bits)) THEN 0
    ELSE byte_sum(bits, i, 0) + payload_sum(bits, i + 8)

\* A 16-bit half of the check word: bit k of it is bits[from + k].
RECURSIVE half_word(_, _, _)
half_word(bits, from, k) ==
    IF k = 16 THEN 0
    ELSE bits[from + k] * Pow2(k) + half_word(bits, from, k + 1)

\* data[data_len - 32..] folded with acc + (bit << i).
check_word(bits) ==
    LET first == Len(bits) - 31
    IN  <<half_word(bits, first + 16, 0), half_word(bits, first, 0)>>

Aborted == [status |-> "panic", valid |-> FALSE, error |-> F32(0)]

\* validate past its length check. data_len - 32 underflows below 32 bits,
\* and data[i + j] must lie inside the slice: either aborts the call.
fidelity(bits) ==
    IF Len(bits) < 32 THEN Aborted
    ELSE IF \E i \in Windows(Len(bits)) : i + 7 >= Len(bits) THEN Aborted
    ELSE LET sum == W(payload_sum(bits, 0))
             check == check_word(bits)
             min == as_f32(WMin(sum, check))
             max == as_f32(WMax(sum, check))
             error == error_of(min, max)
         IN  [status |-> "returned", valid |-> below_tolerance(error),
              error |-> error]

\* validate that takes the 32 checksum bits alone for enough.
validate_min_32(bits) ==
    IF Len(bits) < 32
    THEN [status |-> "returned", valid |-> FALSE, error |-> F32(0)]
    ELSE fidelity(bits)

\* validate without its length check.
validate_unchecked(bits) == fidelity(bits)

validate(bits) ==
    IF Len(bits) < 40
    THEN [status |-> "returned", valid |-> FALSE, error |-> F32(0)]
    ELSE fidelity(bits)

(***************************************************************************)
(* decode_string and decode.                                               *)
(***************************************************************************)
RECURSIVE walk(_, _, _, _)
walk(tree, node, bits, decoded_chars) ==
    IF bits = <<>> THEN decoded_chars
    ELSE LET next ==
                 IF Head(bits) = 0
                 THEN IF node.left # None THEN Unwrap(node.left) ELSE node
                 ELSE IF node.right # None THEN Unwrap(node.right) ELSE node
         IN  IF next.char # None
             THEN walk(tree, tree, Tail(bits),
                       Append(decoded_chars, Unwrap(next.char)))
             ELSE walk(tree, next, Tail(bits), decoded_chars)

\* The caller has checked that the tree has a root.
decode_string(tree_root, bits) ==
    walk(Unwrap(tree_root), Unwrap(tree_root), bits, <<>>)

\* The number of bits decode keeps: encoded_message.len() - (32 + padding).
kept_len(len, pad) == len - (32 + pad)

\* A result holds what format! is given: which of the two texts, the decoded
\* message and the error whose percentage is printed.
Panicked == [status |-> "panic", kind |-> "none", text |-> <<>>,
             error |-> F32(0)]

\* Whether decode gets as far as calling decode_string.
reaches_decode_string(pad, bits) ==
    LET v == validate(bits)
    IN  v.status = "returned" /\ v.valid /\ kept_len(Len(bits), pad) >= 0

decode(tree_root, pad, bits) ==
    LET v == validate(bits)
    IN  IF v.status = "panic" THEN Panicked
        ELSE IF ~v.valid
        THEN [status |-> "returned", kind |-> "Error", text |-> <<>>,
              error |-> v.error]
        ELSE IF kept_len(Len(bits), pad) < 0 \/ tree_root = None
        THEN Panicked
        ELSE [status |-> "returned", kind |-> "Validated",
              text |-> decode_string(tree_root,
                           SubSeq(bits, 1, kept_len(Len(bits), pad))),
              error |-> v.error]

(***************************************************************************)
(* The bits that reach decode: the stream encode returned, or what a lossy *)
(* link leaves of it, or bits that have nothing to do with it.             *)
(***************************************************************************)
Arrive(bits) ==
    /\ pc = "encoded"
    /\ received' = bits
    /\ pc' = "received"
    /\ UNCHANGED <<message, root, padding, node_heap, char_code_map, stream,
                   result, traversed>>
    /\ UNCHANGED linkVars

\* The first n bits arrive, followed by spurious ones.
ReceiveCut ==
    \E n \in 0..Len(stream) : \E extra \in BitSeqs(MaxExtra) :
        Arrive(SubSeq(stream, 1, n) \o extra)

\* One pulse is read as the other bit.
ReceiveFlipped ==
    \E i \in 1..Len(stream) :
        Arrive([stream EXCEPT ![i] = 1 - stream[i]])

\* One pulse is dropped.
ReceiveDropped ==
    \E i \in 1..Len(stream) :
        Arrive(SubSeq(stream, 1, i - 1) \o SubSeq(stream, i + 1, Len(stream)))

\* A few bits of noise are all that arrives.
ReceiveNoise == \E bits \in BitSeqs(MaxShort) : Arrive(bits)

\* A well-formed frame of another sender arrives: a few payload bits, their
\* padding and their checksum, laid out as encode_string lays them out.
ForeignFrame(bits) ==
    LET acc == push_code([encoded_message |-> <<>>, checksum |-> 0,
                          byte_index |-> 0],
                         [i \in 1..Len(bits) |->
                              IF bits[i] = 1 THEN "1" ELSE "0"])
    IN  acc.encoded_message \o Zeros(padding_for(Len(bits)))
            \o check_vec(acc.checksum, 32)

ReceiveForeign == \E bits \in BitSeqs(MaxShort) : Arrive(ForeignFrame(bits))

\* print_message: let message = self.huff_tree.decode(&data)
Decode ==
    /\ pc = "received"
    /\ result' = decode(root, padding, received)
    /\ traversed' = reaches_decode_string(padding, received)
    /\ pc' = "decoded"
    /\ UNCHANGED <<message, root, padding, node_heap, char_code_map, stream,
                   received>>
    /\ UNCHANGED linkVars

(***************************************************************************)
(* lasers.rs: Laser::send_message. An edge event carries the length of a   *)
(* high pulse in nanoseconds; `sent` remembers what the pulse was sent as. *)
(***************************************************************************)
InitiationMicros == 500

LongMicros == 25

ShortMicros == 10

GapMicros == 50

TerminationMicros == 1000

\* Duration::from_micros(n), in the nanoseconds of timestamp_ns.
from_micros(n) == n * 1000

Pulse(ns, sent) == [ok |-> TRUE, ns |-> ns, sent |-> sent]

Emit(event) ==
    /\ Len(wire) < MaxWire
    /\ wire' = Append(wire, event)

\* Initiation sequence.
SendInitiation ==
    /\ lpc = "initiation"
    /\ Emit(Pulse(from_micros(InitiationMicros), "initiation"))
    /\ lpc' = "transmit"
    /\ bit_index' = 0
    /\ UNCHANGED <<encoded_message, rpc, consumed, data>>
    /\ UNCHANGED huffVars

\* for bit in &self.encoded_message: a long pulse for 1, a short one for 0.
SendBit ==
    /\ lpc = "transmit"
    /\ bit_index < Len(encoded_message)
    /\ IF encoded_message[bit_index + 1] = 1
       THEN Emit(Pulse(from_micros(LongMicros), "bit1"))
       ELSE Emit(Pulse(from_micros(ShortMicros), "bit0"))
    /\ bit_index' = bit_index + 1
    /\ UNCHANGED <<encoded_message, lpc, rpc, consumed, data>>
    /\ UNCHANGED huffVars

\* Termination sequence.
SendTermination ==
    /\ lpc = "transmit"
    /\ bit_index = Len(encoded_message)
    /\ Emit(Pulse(from_micros(TerminationMicros), "termination"))
    /\ lpc' = "sleep"
    /\ UNCHANGED <<encoded_message, bit_index, rpc, consumed, data>>
    /\ UNCHANGED huffVars

\* do_laser's laser thread: sleep 2000 ms, then send_message again.
LaserLoop ==
    /\ lpc = "sleep"
    /\ lpc' = "initiation"
    /\ UNCHANGED <<encoded_message, bit_index, wire, rpc, consumed, data>>
    /\ UNCHANGED huffVars

(***************************************************************************)
(* Edges that do not come from this Laser: one pulse length inside each of *)
(* the Receiver's bands, and a malformed reading.                          *)
(***************************************************************************)
OtherPulses == {50, 150, 500, 2000}

OtherSource ==
    /\ \E ns \in OtherPulses : Emit(Pulse(ns, "other"))
    /\ UNCHANGED <<encoded_message, lpc, bit_index, rpc, consumed, data>>
    /\ UNCHANGED huffVars

MalformedReading ==
    /\ Emit([ok |-> FALSE, ns |-> 0, sent |-> "other"])
    /\ UNCHANGED <<encoded_message, lpc, bit_index, rpc, consumed, data>>
    /\ UNCHANGED huffVars

(***************************************************************************)
(* lasers.rs: Receiver::detect_message and Receiver::receive_message.      *)
(***************************************************************************)
\* The arm of detect_message's match on timestamp_ns.
detect_arm(ns) ==
    IF ns <= 400 THEN "continue"
    ELSE IF ns <= 900 THEN "break"
    ELSE "continue"

\* The arm of receive_message's match on timestamp_ns.
receive_arm(ns) ==
    IF ns <= 0 THEN "continue"
    ELSE IF ns <= 89 THEN "push0"
    ELSE IF ns <= 199 THEN "push1"
    ELSE IF ns <= 1000 THEN "continue"
    ELSE "break"

\* receive_message over the events it is given: the bits pushed up to the
\* first termination pulse. The iterator never ends, so the call returns
\* only there: None stands for a call still waiting.
RECURSIVE receive_message(_, _)
receive_message(events, pushed) ==
    IF events = <<>> THEN None
    ELSE IF ~Head(events).ok THEN receive_message(Tail(events), pushed)
    ELSE LET arm == receive_arm(Head(events).ns)
         IN  IF arm = "break" THEN Some(pushed)
             ELSE IF arm = "push0"
             THEN receive_message(Tail(events), Append(pushed, 0))
             ELSE IF arm = "push1"
             THEN receive_message(Tail(events), Append(pushed, 1))
             ELSE receive_message(Tail(events), pushed)

Read ==
    /\ wire # <<>>
    /\ Len(consumed) < MaxEvents
    /\ consumed' = Append(consumed, Head(wire))
    /\ wire' = Tail(wire)

\* loop { let events = self.in_.edge_events(); ...
DetectRequest ==
    /\ rpc = "detect_loop"
    /\ rpc' = "detect_for"
    /\ UNCHANGED <<encoded_message, lpc, bit_index, wire, consumed, data>>
    /\ UNCHANGED huffVars

\* u64::MIN..=400 => continue, 901.. => continue
DetectContinue ==
    /\ rpc = "detect_for"
    /\ Read
    /\ Head(wire).ok
    /\ detect_arm(Head(wire).ns) = "continue"
    /\ UNCHANGED <<encoded_message, lpc, bit_index, rpc, data>>
    /\ UNCHANGED huffVars

\* 401..=900 => break: the for loop over events ends, and the loop around it
\* starts over with a new request for edge events.
DetectBreak ==
    /\ rpc = "detect_for"
    /\ Read
    /\ Head(wire).ok
    /\ detect_arm(Head(wire).ns) = "break"
    /\ rpc' = "detect_loop"
    /\ UNCHANGED <<encoded_message, lpc, bit_index, data>>
    /\ UNCHANGED huffVars

\* Err(_e) => ()
DetectError ==
    /\ rpc = "detect_for"
    /\ Read
    /\ ~Head(wire).ok
    /\ UNCHANGED <<encoded_message, lpc, bit_index, rpc, data>>
    /\ UNCHANGED huffVars

\* print_message prints the text and returns; its caller loops.
NextFrame ==
    /\ pc = "decoded"
    /\ result.status = "returned"
    /\ pc' = "encoded"
    /\ received' = <<>>
    /\ result' = [status |-> "none", kind |-> "none", text |-> <<>>,
                  error |-> F32(0)]
    /\ traversed' = FALSE
    /\ UNCHANGED <<message, root, padding, node_heap, char_code_map, stream>>
    /\ UNCHANGED linkVars

(***************************************************************************)
(* Specifications.                                                         *)
(***************************************************************************)
NoResult == [status |-> "none", kind |-> "none", text |-> <<>>,
             error |-> [nan |-> FALSE, units |-> 0]]

IdleLink ==
    /\ encoded_message = <<>>
    /\ lpc = "off"
    /\ bit_index = 0
    /\ wire = <<>>
    /\ rpc = "off"
    /\ consumed = <<>>
    /\ data = None

\* HuffTree::new(), and the message encode is about to get.
NewTree(msgs) ==
    /\ message \in msgs
    /\ pc = "new"
    /\ root = None
    /\ padding = 0
    /\ node_heap = {}
    /\ char_code_map = <<>>
    /\ stream = <<>>
    /\ received = <<>>
    /\ result = NoResult
    /\ traversed = FALSE

InitEncode == NewTree(Messages(MaxLen)) /\ IdleLink

NextEncode == EncodeBegin \/ BuildMerge \/ BuildDone \/ BuildPanic

SpecEncode == InitEncode /\ [][NextEncode]_vars

\* encode, then decode of whatever arrives, frame after frame.
Init == NewTree(Messages(MaxNoisyLen)) /\ IdleLink

Next ==
    \/ EncodeBegin
    \/ BuildMerge
    \/ BuildDone
    \/ BuildPanic
    \/ ReceiveCut
    \/ ReceiveFlipped
    \/ ReceiveDropped
    \/ ReceiveNoise
    \/ ReceiveForeign
    \/ Decode
    \/ NextFrame

Spec == Init /\ [][Next]_vars

\* do_laser's two threads: the Laser sends its frame again and again, the
\* Receiver runs print_message, which starts in detect_message.
IdleTree ==
    /\ message = <<>>
    /\ pc = "off"
    /\ root = None
    /\ padding = 0
    /\ node_heap = {}
    /\ char_code_map = <<>>
    /\ stream = <<>>
    /\ received = <<>>
    /\ result = NoResult
    /\ traversed = FALSE

InitLink ==
    /\ IdleTree
    /\ encoded_message \in [1..FrameBits -> {0, 1}]
    /\ lpc = "initiation"
    /\ bit_index = 0
    /\ wire = <<>>
    /\ rpc = "detect_loop"
    /\ consumed = <<>>
    /\ data = None

NextLink ==
    \/ SendInitiation
    \/ SendBit
    \/ SendTermination
    \/ LaserLoop
    \/ OtherSource
    \/ MalformedReading
    \/ DetectRequest
    \/ DetectContinue
    \/ DetectBreak
    \/ DetectError

SpecLink == InitLink /\ [][NextLink]_vars

(***************************************************************************)
(* What the claims speak of.                                               *)
(***************************************************************************)
Distinct(msg) == {msg[i] : i \in DOMAIN msg}

Occurrences(msg, c) == Cardinality({i \in DOMAIN msg : msg[i] = c})

\* Some two symbols of the message differ in frequency.
Skewed(msg) ==
    \E c, d \in Distinct(msg) : Occurrences(msg, c) # Occurrences(msg, d)

IsPrefix(s, t) == Len(s) <= Len(t) /\ SubSeq(t, 1, Len(s)) = s

\* The bits of a code, read digit by digit.
CodeBits(code) == [i \in 1..Len(code) |-> IF code[i] = "1" THEN 1 ELSE 0]

\* The codes of the message's symbols, one after the other.
RECURSIVE Payload(_, _)
Payload(msg, codes) ==
    IF msg = <<>> THEN <<>>
    ELSE CodeBits(codes[Head(msg)]) \o Payload(Tail(msg), codes)

Encoded == pc \in {"encoded", "received", "decoded"}

Faithful == [status |-> "returned", kind |-> "Validated", text |-> message,
             error |-> F32(0)]

(***************************************************************************)
(* C1: for every non-empty message, a message of one distinct symbol       *)
(* included, decode of the stream encode returned gives the "Validated     *)
(* message" result holding exactly the message, and validate of that       *)
(* stream gives valid = true with error 0.0.                               *)
(***************************************************************************)
C1_RoundTrip ==
    (pc = "decoded" /\ message # <<>> /\ received = stream) =>
        /\ result = Faithful
        /\ validate(stream) =
               [status |-> "returned", valid |-> TRUE, error |-> F32(0)]

(***************************************************************************)
(* C3: for every message of at least two distinct symbols, whichever of    *)
(* the equal-frequency nodes the heap pops first, the code table has one   *)
(* entry per distinct symbol and no code is a prefix of, or equal to,      *)
(* another symbol's code.                                                  *)
(***************************************************************************)
C3_PrefixFree ==
    (Encoded /\ Cardinality(Distinct(message)) >= 2) =>
        /\ DOMAIN char_code_map = Distinct(message)
        /\ \A c, d \in DOMAIN char_code_map :
               c # d => ~IsPrefix(char_code_map[c], char_code_map[d])

\* A table of three codes of two different lengths has been built.
C3_Witness ==
    /\ pc = "encoded"
    /\ Cardinality(DOMAIN char_code_map) = 3
    /\ \E c, d \in DOMAIN char_code_map :
           Len(char_code_map[c]) = 1 /\ Len(char_code_map[d]) = 2

(***************************************************************************)
(* C4: validate of fewer than 40 bits, the empty sequence included and     *)
(* whatever the bits are, returns (false, 0.0), and decode of them returns *)
(* the "Error: Invalid data detected" result without calling               *)
(* decode_string.                                                          *)
(***************************************************************************)
C4_ShortRejected ==
    Len(received) < 40 =>
        /\ validate(received) =
               [status |-> "returned", valid |-> FALSE, error |-> F32(0)]
        /\ pc = "decoded" =>
               /\ result = [status |-> "returned", kind |-> "Error",
                            text |-> <<>>, error |-> F32(0)]
               /\ ~traversed

\* decode has returned for 39 bits that are not all zero.
C4_Witness ==
    /\ pc = "decoded"
    /\ Len(received) = 39
    /\ \E i \in DOMAIN received : received[i] = 1
    /\ result.kind = "Error"

(***************************************************************************)
(* C5: validate of at least 40 bits whose payload sum and check word are   *)
(* both 0 returns valid = true with error 0.                               *)
(***************************************************************************)
C5_ZeroSafe ==
    (/\ Len(received) >= 40
     /\ payload_sum(received, 0) = 0
     /\ check_word(received) = <<0, 0>>) =>
        validate(received) =
            [status |-> "returned", valid |-> TRUE, error |-> F32(0)]

(***************************************************************************)
(* C6: for any message of more than one distinct symbol and skewed         *)
(* frequencies, encode returns strictly fewer than 8 * length(message)     *)
(* bits.                                                                   *)
(***************************************************************************)
C6_Original ==
    (pc = "encoded" /\ Cardinality(Distinct(message)) > 1 /\ Skewed(message))
        => Len(stream) < 8 * Len(message)

(***************************************************************************)
(* C6, amended: for any message of k > 1 distinct symbols, skewed          *)
(* frequencies and a length L with (9 - k) * L > 40, encode returns        *)
(* strictly fewer than 8 * L bits.                                         *)
(***************************************************************************)
C6_Amended ==
    (/\ pc = "encoded"
     /\ Cardinality(Distinct(message)) > 1
     /\ Skewed(message)
     /\ (9 - Cardinality(Distinct(message))) * Len(message) > 40)
        => Len(stream) < 8 * Len(message)

\* A skewed message of three symbols, long enough, has been encoded.
C6_Witness ==
    /\ pc = "encoded"
    /\ Cardinality(Distinct(message)) = 3
    /\ Skewed(message)
    /\ (9 - 3) * Len(message) > 40
    /\ Len(stream) < 8 * Len(message)

(***************************************************************************)
(* C9: once encode has built the tree, decode returns a result, the        *)
(* labelled error or the validated text, for every sequence of bits it is  *)
(* given; it never aborts, and the receive loop goes on to the next frame. *)
(***************************************************************************)
C9_DecodeReturns ==
    pc = "decoded" =>
        /\ result.status = "returned"
        /\ result.kind \in {"Error", "Validated"}
        /\ ENABLED NextFrame

\* decode has validated, trimmed and walked bits that are not the stream
\* encode returned, and has read a text other than the message from them.
C9_Witness ==
    /\ pc = "decoded"
    /\ received # stream
    /\ traversed
    /\ result.kind = "Validated"
    /\ result.text # message

(***************************************************************************)
(* C10: encode stores padding = 8 - (len % 8), len the number of code      *)
(* bits, so padding is between 1 and 8, and 8 when len is a multiple of 8; *)
(* the stream is the code bits, then padding zero bits, then 32 checksum   *)
(* bits, so its length is a multiple of 8 and at least 40.                 *)
(***************************************************************************)
C10_Padding ==
    Encoded =>
        LET code == Payload(message, char_code_map)
            len == Len(code)
        IN  /\ padding = 8 - (len % 8)
            /\ padding \in 1..8
            /\ (len % 8 = 0) => (padding = 8)
            /\ Len(stream) = len + padding + 32
            /\ SubSeq(stream, 1, len) = code
            /\ SubSeq(stream, len + 1, len + padding) = Zeros(padding)
            /\ \A i \in DOMAIN stream : stream[i] \in {0, 1}
            /\ Len(stream) % 8 = 0
            /\ Len(stream) >= 40

\* A message of several symbols whose code bits fill one byte exactly.
C10_Witness ==
    /\ pc = "encoded"
    /\ Len(Payload(message, char_code_map)) = 8
    /\ padding = 8
    /\ Len(stream) = 48

(***************************************************************************)
(* What the claims about the link speak of.                                *)
(***************************************************************************)
InInitiationBand(e) == e.ok /\ detect_arm(e.ns) = "break"

InShortBand(e) == e.ok /\ receive_arm(e.ns) = "push0"

InLongBand(e) == e.ok /\ receive_arm(e.ns) = "push1"

InTerminationBand(e) == e.ok /\ receive_arm(e.ns) = "break"

\* One initiation pulse, then data pulses only, then one termination pulse.
IsFrame(events) ==
    /\ Len(events) >= 3
    /\ InInitiationBand(events[1])
    /\ InTerminationBand(events[Len(events)])
    /\ \A i \in 2..(Len(events) - 1) :
           InShortBand(events[i]) \/ InLongBand(events[i])

FrameBitsOf(events) ==
    [i \in 1..(Len(events) - 2) |-> IF InShortBand(events[i + 1]) THEN 0 ELSE 1]

(***************************************************************************)
(* C2: fed one initiation-band duration, then N data-band durations, then  *)
(* one termination-band duration, detect_message followed by               *)
(* receive_message returns exactly the N bits, in order, 0 for a short and *)
(* 1 for a long duration.                                                  *)
(***************************************************************************)
C2_FrameDecoded ==
    IsFrame(consumed) => data = Some(FrameBitsOf(consumed))

(***************************************************************************)
(* C7: the pulse lengths of send_message are ordered gap > long > short    *)
(* and termination > initiation > long, and every pulse send_message emits *)
(* falls into the band of the Receiver it was sent for.                    *)
(***************************************************************************)
C7_PulsesClassified ==
    /\ GapMicros > LongMicros /\ LongMicros > ShortMicros
    /\ TerminationMicros > InitiationMicros /\ InitiationMicros > LongMicros
    /\ \A e \in {wire[i] : i \in DOMAIN wire}
                \cup {consumed[i] : i \in DOMAIN consumed} :
           /\ e.sent = "initiation" => InInitiationBand(e)
           /\ e.sent = "bit0" => InShortBand(e)
           /\ e.sent = "bit1" => InLongBand(e)
           /\ e.sent = "termination" => InTerminationBand(e)

(***************************************************************************)
(* C8: detect_message reads on while the durations lie outside the         *)
(* initiation band and returns, so that receive_message starts, as soon as *)
(* one duration falls into it.                                             *)
(***************************************************************************)
C8_DetectReturns ==
    (\E i \in DOMAIN consumed : InInitiationBand(consumed[i])) =>
        rpc \notin {"detect_loop", "detect_for"}
====
